---- MODULE Spec2Model ----
(***************************************************************************)
(* bgit: the config store (users, workspaces, bindings, active user), its  *)
(* persistence, the identity resolution engine, and what the commands      *)
(* write outside the store: git's global user and the managed section of   *)
(* the SSH config file.                                                    *)
(*                                                                         *)
(* Paths are sequences of one-character strings ("/a/b" is                 *)
(* <<"/","a","/","b">>), so that the prefix tests of isPathInside are      *)
(* computed on characters as the code computes them. Every path of the     *)
(* model is absolute. Aliases, e-mails and GitHub usernames are strings;   *)
(* an alias used as a directory name is the one-character component        *)
(* <<alias>>.                                                              *)
(***************************************************************************)
EXTENDS Integers, Sequences, FiniteSets, TLC

VARIABLES
    cfg,      \* the Config value held by the running command (config.Config)
    file,     \* the persisted config document (config.toml)
    exists,   \* the directories that exist on the filesystem
    gitDirs,  \* the directories that hold a ".git" directory
    last,     \* the last operation and what it returned
    walk,     \* the findGitRoot call in progress, loop iteration by iteration
    procs,    \* the `bgit add` invocations that run side by side, each with
              \* its position and its own Config
    gitUser,  \* git's global user.name and user.email
    sshConfig \* the lines of the user's SSH config file (~/.ssh/config)

vars == <<cfg, file, exists, gitDirs, last, walk, procs, gitUser, sshConfig>>

(***************************************************************************)
(* Strings and paths                                                       *)
(***************************************************************************)
Separator == "/"

Root == <<"/">>

HasPrefix(s, prefix) ==
    Len(prefix) <= Len(s) /\ SubSeq(s, 1, Len(prefix)) = prefix

HasSuffix(s, suffix) ==
    Len(suffix) <= Len(s) /\ SubSeq(s, Len(s) - Len(suffix) + 1, Len(s)) = suffix

TrimSuffix(s, suffix) ==
    IF HasSuffix(s, suffix) THEN SubSeq(s, 1, Len(s) - Len(suffix)) ELSE s

\* filepath.Abs on an absolute path is filepath.Clean: trailing separators are
\* dropped, the root stays "/". (The paths of the model hold no "." or ".."
\* element and no doubled separator.)
RECURSIVE Abs(_)
Abs(path) ==
    IF Len(path) > 1 /\ path[Len(path)] = Separator
    THEN Abs(SubSeq(path, 1, Len(path) - 1))
    ELSE path

\* filepath.Dir: all but the last element, cleaned; the root is its own parent.
Dir(path) ==
    LET seps == {i \in 1..Len(path) : path[i] = Separator}
        i    == CHOOSE k \in seps : \A j \in seps : j <= k
    IN  IF i = 1 THEN Root ELSE Abs(SubSeq(path, 1, i - 1))

\* filepath.Join(base, alias)
Join(base, elem) ==
    IF base = Root THEN Root \o <<elem>> ELSE base \o <<Separator, elem>>

\* What a for-range loop that returns at its first match finds: the least of
\* the matching indices S, 0 (a nil pointer) when nothing matches.
First(S) == IF S = {} THEN 0 ELSE CHOOSE i \in S : \A j \in S : i <= j

RemoveAt(seq, i) == SubSeq(seq, 1, i - 1) \o SubSeq(seq, i + 1, Len(seq))

(***************************************************************************)
(* The config store                                                        *)
(***************************************************************************)
NewConfig == [ActiveUser |-> "", Users |-> <<>>, Workspaces |-> <<>>, Bindings |-> <<>>]

\* The users of the model carry their alias as display name (Name takes part
\* in no lookup; it is what `use` writes to git's user.name).
User(alias, email, github, key) ==
    [Alias |-> alias, Name |-> alias, Email |-> email, GitHubUsername |-> github,
     SSHKeyPath |-> key]

Workspace(path, user) == [Path |-> path, User |-> user]

Binding(path, user) == [Path |-> path, User |-> user]

FindUser(c, identifier) ==
    First({i \in DOMAIN c.Users : \/ c.Users[i].Alias = identifier
                                  \/ c.Users[i].GitHubUsername = identifier
                                  \/ c.Users[i].Email = identifier})

FindUserByAlias(c, alias) == First({i \in DOMAIN c.Users : c.Users[i].Alias = alias})

FindUserByUsername(c, username) ==
    First({i \in DOMAIN c.Users : c.Users[i].GitHubUsername = username})

FindUserByEmail(c, email) == First({i \in DOMAIN c.Users : c.Users[i].Email = email})

\* The error AddUser returns on the first existing user, in list order, that
\* collides with the new one: for each user alias, then e-mail, then username.
AddUserErr(c, user) ==
    LET i == First({k \in DOMAIN c.Users :
                       \/ c.Users[k].Alias = user.Alias
                       \/ c.Users[k].Email = user.Email
                       \/ c.Users[k].GitHubUsername = user.GitHubUsername})
    IN  IF i = 0 THEN ""
        ELSE IF c.Users[i].Alias = user.Alias THEN "alias exists"
        ELSE IF c.Users[i].Email = user.Email THEN "email exists"
        ELSE "github exists"

\* A variant that compares aliases only.
AddUserAliasOnly(c, user) ==
    IF FindUserByAlias(c, user.Alias) # 0
    THEN [err |-> "alias exists", cfg |-> c]
    ELSE [err |-> "", cfg |-> [c EXCEPT !.Users = Append(@, user)]]

AddUser(c, user) ==
    LET err == AddUserErr(c, user)
    IN  IF err # "" THEN [err |-> err, cfg |-> c]
        ELSE [err |-> "", cfg |-> [c EXCEPT !.Users = Append(@, user)]]

\* A variant without the duplicate-path check.
AddWorkspaceNoPathCheck(c, path, userAlias) ==
    IF FindUserByAlias(c, userAlias) = 0
    THEN [err |-> "user not found", cfg |-> c]
    ELSE [err |-> "",
          cfg |-> [c EXCEPT !.Workspaces = Append(@, Workspace(path, userAlias))]]

\* A variant that verifies the user before the path.
AddWorkspaceUserFirst(c, path, userAlias) ==
    IF FindUserByAlias(c, userAlias) = 0
    THEN [err |-> "user not found", cfg |-> c]
    ELSE IF First({i \in DOMAIN c.Workspaces : c.Workspaces[i].Path = path}) # 0
    THEN [err |-> "workspace exists", cfg |-> c]
    ELSE [err |-> "",
          cfg |-> [c EXCEPT !.Workspaces = Append(@, Workspace(path, userAlias))]]

AddWorkspace(c, path, userAlias) ==
    IF First({i \in DOMAIN c.Workspaces : c.Workspaces[i].Path = path}) # 0
    THEN [err |-> "workspace exists", cfg |-> c]
    ELSE IF FindUserByAlias(c, userAlias) = 0
    THEN [err |-> "user not found", cfg |-> c]
    ELSE [err |-> "",
          cfg |-> [c EXCEPT !.Workspaces = Append(@, Workspace(path, userAlias))]]

RemoveWorkspace(c, userAlias) ==
    LET i == First({k \in DOMAIN c.Workspaces : c.Workspaces[k].User = userAlias})
    IN  IF i = 0 THEN [ok |-> FALSE, cfg |-> c]
        ELSE [ok |-> TRUE, cfg |-> [c EXCEPT !.Workspaces = RemoveAt(@, i)]]

RemoveWorkspaceByPath(c, path) ==
    LET i == First({k \in DOMAIN c.Workspaces : c.Workspaces[k].Path = path})
    IN  IF i = 0 THEN [ok |-> FALSE, cfg |-> c]
        ELSE [ok |-> TRUE, cfg |-> [c EXCEPT !.Workspaces = RemoveAt(@, i)]]

\* A variant that tests the string prefix without the closing separator.
isPathInsideNoSeparator(childPath, parentPath) ==
    HasPrefix(Abs(childPath), Abs(parentPath))

\* isPathInside(childPath, parentPath)
isPathInside(childPath, parentPath) ==
    LET child   == Abs(childPath)
        parent0 == Abs(parentPath)
        parent  == IF HasSuffix(parent0, <<Separator>>) THEN parent0
                   ELSE parent0 \o <<Separator>>
    IN  \/ HasPrefix(child \o <<Separator>>, parent)
        \/ child = TrimSuffix(parent, <<Separator>>)

\* A variant that prefers the deepest workspace containing the path.
FindWorkspaceByPathDeepest(c, path) ==
    LET S == {i \in DOMAIN c.Workspaces : isPathInside(path, c.Workspaces[i].Path)}
    IN  IF S = {} THEN 0
        ELSE CHOOSE i \in S :
               \A j \in S : \/ Len(c.Workspaces[j].Path) < Len(c.Workspaces[i].Path)
                            \/ (Len(c.Workspaces[j].Path) = Len(c.Workspaces[i].Path)
                                /\ i <= j)

\* A variant that skips the workspaces whose alias is that of no user.
FindWorkspaceByPathOfUser(c, path) ==
    First({i \in DOMAIN c.Workspaces :
              /\ isPathInside(path, c.Workspaces[i].Path)
              /\ FindUserByAlias(c, c.Workspaces[i].User) # 0})

FindWorkspaceByPath(c, path) ==
    First({i \in DOMAIN c.Workspaces : isPathInside(path, c.Workspaces[i].Path)})

\* A variant that appends without looking for an existing binding.
AddBindingAppendOnly(c, path, userAlias) ==
    IF FindUserByAlias(c, userAlias) = 0
    THEN [err |-> "user not found", cfg |-> c]
    ELSE [err |-> "",
          cfg |-> [c EXCEPT !.Bindings = Append(@, Binding(path, userAlias))]]

AddBinding(c, path, userAlias) ==
    LET i == First({k \in DOMAIN c.Bindings : c.Bindings[k].Path = path})
    IN  IF i # 0
        THEN [err |-> "", cfg |-> [c EXCEPT !.Bindings[i].User = userAlias]]
        ELSE IF FindUserByAlias(c, userAlias) = 0
        THEN [err |-> "user not found", cfg |-> c]
        ELSE [err |-> "",
              cfg |-> [c EXCEPT !.Bindings = Append(@, Binding(path, userAlias))]]

RemoveBinding(c, path) ==
    LET i == First({k \in DOMAIN c.Bindings : c.Bindings[k].Path = path})
    IN  IF i = 0 THEN [ok |-> FALSE, cfg |-> c]
        ELSE [ok |-> TRUE, cfg |-> [c EXCEPT !.Bindings = RemoveAt(@, i)]]

\* A variant that matches a binding on any directory containing the path.
FindBindingByPathInside(c, path) ==
    First({i \in DOMAIN c.Bindings : isPathInside(path, c.Bindings[i].Path)})

FindBindingByPath(c, path) == First({i \in DOMAIN c.Bindings : c.Bindings[i].Path = path})

\* os.Stat(path) succeeds
Stat(ex, path) == path \in ex

\* A variant that counts the entries it keeps.
CleanupInvalidPathsCountsKept(c, ex) ==
    LET validWorkspaces == SelectSeq(c.Workspaces, LAMBDA ws : Stat(ex, ws.Path))
        validBindings   == SelectSeq(c.Bindings, LAMBDA b : Stat(ex, b.Path))
    IN  [removed |-> Len(validWorkspaces) + Len(validBindings),
         cfg |-> [c EXCEPT !.Workspaces = validWorkspaces,
                           !.Bindings = validBindings]]

\* A variant that cleans the workspaces and forgets the bindings.
CleanupInvalidPathsWorkspacesOnly(c, ex) ==
    LET validWorkspaces == SelectSeq(c.Workspaces, LAMBDA ws : Stat(ex, ws.Path))
    IN  [removed |-> Len(c.Workspaces) - Len(validWorkspaces),
         cfg |-> [c EXCEPT !.Workspaces = validWorkspaces]]

CleanupInvalidPaths(c, ex) ==
    LET validWorkspaces == SelectSeq(c.Workspaces, LAMBDA ws : Stat(ex, ws.Path))
        validBindings   == SelectSeq(c.Bindings, LAMBDA b : Stat(ex, b.Path))
    IN  [removed |-> (Len(c.Workspaces) - Len(validWorkspaces))
                     + (Len(c.Bindings) - Len(validBindings)),
         cfg |-> [c EXCEPT !.Workspaces = validWorkspaces,
                           !.Bindings = validBindings]]

(***************************************************************************)
(* Identity resolution                                                     *)
(***************************************************************************)
SourceWorkspace == "workspace"
SourceBinding == "binding"
SourceGlobal == "global"

\* ResolveIdentity's (nil, nil): no resolution. User is an index into
\* cfg.Users (the *config.User), 0 for nil.
NoResolution == [User |-> 0, Alias |-> "", Source |-> "none", Path |-> <<>>]

Resolution(user, alias, source, path) ==
    [User |-> user, Alias |-> alias, Source |-> source, Path |-> path]

\* findGitRoot: "" (here <<>>) when no directory from path up to the root
\* holds a ".git" directory.
RECURSIVE findGitRootFrom(_, _)
findGitRootFrom(current, git) ==
    IF current \in git THEN current
    ELSE IF Dir(current) = current THEN <<>>
    ELSE findGitRootFrom(Dir(current), git)

findGitRoot(path, git) == findGitRootFrom(Abs(path), git)

\* A variant that returns the binding found without looking its user up.
ResolveBindingNoUserCheck(c, absPath, git) ==
    LET repoRoot == findGitRoot(absPath, git)
        b        == IF repoRoot # <<>> THEN FindBindingByPath(c, repoRoot) ELSE 0
        user     == IF b # 0 THEN FindUserByAlias(c, c.Bindings[b].User) ELSE 0
    IN  IF b # 0
        THEN Resolution(user, c.Bindings[b].User, SourceBinding, c.Bindings[b].Path)
        ELSE NoResolution

ResolveBinding(c, absPath, git) ==
    LET repoRoot == findGitRoot(absPath, git)
        b        == IF repoRoot # <<>> THEN FindBindingByPath(c, repoRoot) ELSE 0
        user     == IF b # 0 THEN FindUserByAlias(c, c.Bindings[b].User) ELSE 0
    IN  IF user # 0
        THEN Resolution(user, c.Bindings[b].User, SourceBinding, c.Bindings[b].Path)
        ELSE NoResolution

\* A variant that looks the active user up as a GitHub username.
ResolveGlobalByUsername(c) ==
    LET user == IF c.ActiveUser # "" THEN FindUserByUsername(c, c.ActiveUser) ELSE 0
    IN  IF user # 0
        THEN Resolution(user, c.ActiveUser, SourceGlobal, <<>>)
        ELSE NoResolution

ResolveGlobal(c) ==
    LET user == IF c.ActiveUser # "" THEN FindUserByAlias(c, c.ActiveUser) ELSE 0
    IN  IF user # 0
        THEN Resolution(user, c.ActiveUser, SourceGlobal, <<>>)
        ELSE NoResolution

\* A variant that consults the binding before the workspace.
ResolveIdentityBindingFirst(c, currentPath, git) ==
    LET absPath == Abs(currentPath)
        w       == FindWorkspaceByPath(c, absPath)
        wuser   == IF w # 0 THEN FindUserByAlias(c, c.Workspaces[w].User) ELSE 0
        byBind  == ResolveBinding(c, absPath, git)
    IN  IF byBind # NoResolution THEN byBind
        ELSE IF wuser # 0
        THEN Resolution(wuser, c.Workspaces[w].User, SourceWorkspace,
                        c.Workspaces[w].Path)
        ELSE ResolveGlobal(c)

\* A variant that returns the matched workspace without looking its user up.
ResolveIdentityNoUserCheck(c, currentPath, git) ==
    LET absPath == Abs(currentPath)
        w       == FindWorkspaceByPath(c, absPath)
        wuser   == IF w # 0 THEN FindUserByAlias(c, c.Workspaces[w].User) ELSE 0
        byBind  == ResolveBinding(c, absPath, git)
    IN  IF w # 0
        THEN Resolution(wuser, c.Workspaces[w].User, SourceWorkspace,
                        c.Workspaces[w].Path)
        ELSE IF byBind # NoResolution THEN byBind
        ELSE ResolveGlobal(c)

ResolveIdentity(c, currentPath, git) ==
    LET absPath == Abs(currentPath)
        w       == FindWorkspaceByPath(c, absPath)
        wuser   == IF w # 0 THEN FindUserByAlias(c, c.Workspaces[w].User) ELSE 0
        byBind  == ResolveBinding(c, absPath, git)
    IN  IF wuser # 0
        THEN Resolution(wuser, c.Workspaces[w].User, SourceWorkspace,
                        c.Workspaces[w].Path)
        ELSE IF byBind # NoResolution THEN byBind
        ELSE ResolveGlobal(c)

\* A variant that reports an error when nothing resolves.
ResolveIdentityErrNotConfigured(c, currentPath, git) ==
    IF ResolveIdentity(c, currentPath, git) = NoResolution
    THEN "no identity configured"
    ELSE ""

\* The error ResolveIdentity returns next to its result: nil ("") on each of
\* its returns; the error of filepath.Abs is dropped, not returned.
ResolveIdentityErr(c, currentPath, git) == ""

(***************************************************************************)
(* Persistence                                                             *)
(***************************************************************************)
\* The persisted document is TOML: the keys active_user, users, workspaces and
\* bindings, the last three arrays of tables whose keys are those of the
\* struct tags. (The version key, which no operation changes, and a user's
\* name are left out, as they are in Config and User.)
EncodeUser(u) ==
    [alias |-> u.Alias, name |-> u.Name, email |-> u.Email,
     github_username |-> u.GitHubUsername, ssh_key_path |-> u.SSHKeyPath]

DecodeUser(t) ==
    [Alias |-> t.alias, Name |-> t.name, Email |-> t.email,
     GitHubUsername |-> t.github_username, SSHKeyPath |-> t.ssh_key_path]

EncodeEntry(e) == [path |-> e.Path, user |-> e.User]

DecodeEntry(t) == [Path |-> t.path, User |-> t.user]

\* toml.NewEncoder(f).Encode(config)
Encode(c) ==
    [active_user |-> c.ActiveUser,
     users       |-> IF c.Users = <<>> THEN <<>>
                     ELSE [i \in DOMAIN c.Users |-> EncodeUser(c.Users[i])],
     workspaces  |-> IF c.Workspaces = <<>> THEN <<>>
                     ELSE [i \in DOMAIN c.Workspaces |-> EncodeEntry(c.Workspaces[i])],
     bindings    |-> IF c.Bindings = <<>> THEN <<>>
                     ELSE [i \in DOMAIN c.Bindings |-> EncodeEntry(c.Bindings[i])]]

\* toml.DecodeFile(configPath, &config)
Decode(doc) ==
    [ActiveUser |-> doc.active_user,
     Users      |-> IF doc.users = <<>> THEN <<>>
                    ELSE [i \in DOMAIN doc.users |-> DecodeUser(doc.users[i])],
     Workspaces |-> IF doc.workspaces = <<>> THEN <<>>
                    ELSE [i \in DOMAIN doc.workspaces |-> DecodeEntry(doc.workspaces[i])],
     Bindings   |-> IF doc.bindings = <<>> THEN <<>>
                    ELSE [i \in DOMAIN doc.bindings |-> DecodeEntry(doc.bindings[i])]]

\* SaveConfig truncates the file and writes the whole document from the
\* Config value.
SaveConfig(c) == Encode(c)

\* LoadConfig after the decoding, on the decoded Config c0 and the document
\* f it came from: fill a missing alias from the GitHub username, replace an
\* ActiveUser that is some user's GitHub username by that user's alias, and
\* save when a migration ran. Returns the Config and the document left on disk.
Migrate(c0, f) ==
    LET users1 == IF c0.Users = <<>> THEN <<>>
                  ELSE [i \in DOMAIN c0.Users |->
                          IF c0.Users[i].Alias = ""
                          THEN [c0.Users[i] EXCEPT !.Alias = c0.Users[i].GitHubUsername]
                          ELSE c0.Users[i]]
        c1     == [c0 EXCEPT !.Users = users1]
        u      == IF c1.ActiveUser # "" THEN FindUserByUsername(c1, c1.ActiveUser) ELSE 0
        active == u # 0 /\ c1.Users[u].Alias # ""
        c2     == IF active THEN [c1 EXCEPT !.ActiveUser = c1.Users[u].Alias] ELSE c1
        needsSave == (\E i \in DOMAIN c0.Users : c0.Users[i].Alias = "") \/ active
    IN  [cfg |-> c2, file |-> IF needsSave THEN SaveConfig(c2) ELSE f]

\* LoadConfig: decode the document, then migrate.
LoadConfig(f) == Migrate(Decode(f), f)

(***************************************************************************)
(* git's global user and the SSH config file                               *)
(*                                                                         *)
(* The SSH config file is the sequence of its lines; a line is the         *)
(* sequence of the pieces of text that make it up ("  User git" is         *)
(* <<"  ", "User git">>), cut so that every text the code searches a line  *)
(* for is one piece, and a run of blanks at either end is one piece. An    *)
(* empty file and a missing one are both <<>>. No line of the model ends   *)
(* in a carriage return or is longer than the scanner's buffer.            *)
(***************************************************************************)
\* Before any `bgit use`: git has no global user.
NoGitUser == [name |-> "", email |-> ""]

\* A variant that writes both values or none.
SetGlobalUserAtomic(g, name, email, written) ==
    IF written >= 2 THEN [name |-> name, email |-> email] ELSE g

\* git.SetGlobalUser(name, email): user.name is written, then user.email;
\* written is how many of the two `git config --global` calls succeed
\* before one fails (2: both did).
SetGlobalUser(g, name, email, written) ==
    [name  |-> IF written >= 1 THEN name ELSE g.name,
     email |-> IF written >= 2 THEN email ELSE g.email]

EmptyLine == <<>>
Blanks == {" ", "  "}

bgitManagedStart   == <<"# ---- ", "BEGIN BGIT MANAGED", " ----">>
bgitManagedEnd     == <<"# ---- ", "END BGIT MANAGED", " ----">>
legacyManagedStart == <<"# ---- ", "BEGIN BRGIT MANAGED", " ----">>
legacyManagedEnd   == <<"# ---- ", "END BRGIT MANAGED", " ----">>

\* strings.TrimSpace(line)
RECURSIVE TrimSpace(_)
TrimSpace(line) ==
    IF line = <<>> THEN line
    ELSE IF Head(line) \in Blanks THEN TrimSpace(Tail(line))
    ELSE IF line[Len(line)] \in Blanks THEN TrimSpace(SubSeq(line, 1, Len(line) - 1))
    ELSE line

\* strings.Contains(line, text)
Contains(line, text) == \E i \in DOMAIN line : line[i] = text

\* strings.TrimRight(content, "\n"): the empty lines at the end are dropped.
RECURSIVE TrimRightNewlines(_)
TrimRightNewlines(lines) ==
    IF lines # <<>> /\ lines[Len(lines)] = EmptyLine
    THEN TrimRightNewlines(SubSeq(lines, 1, Len(lines) - 1))
    ELSE lines

\* The scanner loop of removeBgitSection over the lines still to read.
RECURSIVE removeBgitSectionScan(_, _)
removeBgitSectionScan(lines, inManagedSection) ==
    IF lines = <<>> THEN <<>>
    ELSE LET trimmedLine == TrimSpace(Head(lines))
         IN  IF trimmedLine = bgitManagedStart \/ trimmedLine = legacyManagedStart
             THEN removeBgitSectionScan(Tail(lines), TRUE)
             ELSE IF trimmedLine = bgitManagedEnd \/ trimmedLine = legacyManagedEnd
             THEN removeBgitSectionScan(Tail(lines), FALSE)
             ELSE IF ~inManagedSection
             THEN <<Head(lines)>> \o removeBgitSectionScan(Tail(lines), inManagedSection)
             ELSE removeBgitSectionScan(Tail(lines), inManagedSection)

removeBgitSection(content) == TrimRightNewlines(removeBgitSectionScan(content, FALSE))

\* The host block of one user; platform.NormalizePathForSSHConfig leaves the
\* key path as it is (not Windows).
HostBlock(user) ==
    << <<"Host ", "github.com-", user.GitHubUsername>>,
       <<"  ", "HostName github.com">>,
       <<"  ", "User git">>,
       <<"  ", "IdentityFile ", user.SSHKeyPath>>,
       <<"  ", "IdentitiesOnly yes">>,
       EmptyLine >>

RECURSIVE HostBlocks(_)
HostBlocks(users) ==
    IF users = <<>> THEN <<>>
    ELSE (IF Head(users).SSHKeyPath = "" THEN <<>> ELSE HostBlock(Head(users)))
         \o HostBlocks(Tail(users))

generateBgitSection(users) ==
    << bgitManagedStart,
       <<"# DO NOT EDIT THIS SECTION MANUALLY">>,
       <<"# This section is managed by bgit">>,
       EmptyLine >>
    \o HostBlocks(users)
    \o << bgitManagedEnd >>

\* ssh.UpdateSSHConfig(users) on a file of the given content: what it writes.
UpdateSSHConfig(content, users) ==
    LET cleanedContent == removeBgitSection(content)
    IN  (IF cleanedContent # <<>> THEN cleanedContent \o <<EmptyLine>> ELSE <<>>)
        \o generateBgitSection(users)

\* The loop of removeSSHConfigEntries (bgit uninstall) over the lines.
RECURSIVE removeSSHConfigEntriesScan(_, _)
removeSSHConfigEntriesScan(lines, inBgitSection) ==
    IF lines = <<>> THEN <<>>
    ELSE IF Contains(Head(lines), "BEGIN BRGIT MANAGED")
    THEN removeSSHConfigEntriesScan(Tail(lines), TRUE)
    ELSE IF Contains(Head(lines), "END BRGIT MANAGED")
    THEN removeSSHConfigEntriesScan(Tail(lines), FALSE)
    ELSE IF ~inBgitSection
    THEN <<Head(lines)>> \o removeSSHConfigEntriesScan(Tail(lines), inBgitSection)
    ELSE removeSSHConfigEntriesScan(Tail(lines), inBgitSection)

\* removeSSHConfigEntries: a missing file is left alone; otherwise what is
\* kept is written back, ending in one newline.
removeSSHConfigEntries(content) ==
    IF content = <<>> THEN content
    ELSE LET newLines == TrimRightNewlines(removeSSHConfigEntriesScan(content, FALSE))
         IN  IF newLines = <<>> THEN <<EmptyLine>> ELSE newLines

(***************************************************************************)
(* The filesystem the model runs on                                        *)
(***************************************************************************)
PathA   == <<"/", "a">>
PathB   == <<"/", "b">>
PathAA  == <<"/", "a", "/", "a">>
PathAB  == <<"/", "a", "/", "b">>
PathAR  == <<"/", "a", "/", "r">>

\* Directories present before any command runs; /a/r is a git repository.
InitDirs == {Root, PathA, PathAR}
InitGitDirs == {PathAR}

\* The invocations of `bgit add` that may overlap, and one that is not running.
Procs == {"p1", "p2"}

IdleProc == [pc |-> "idle", user |-> User("", "", "", ""), cfg |-> NewConfig, err |-> ""]

\* No findGitRoot call is in progress.
NoWalk == [pc |-> "idle", start |-> <<>>, current |-> <<>>, checks |-> 0, result |-> <<>>]

\* What `last` holds after a command (a whole bgit invocation) has run.
Command == [op |-> "command"]

Init ==
    /\ cfg = NewConfig
    /\ file = SaveConfig(NewConfig)
    /\ exists = InitDirs
    /\ gitDirs = InitGitDirs
    /\ last = [op |-> "init"]
    /\ walk = NoWalk
    /\ procs = [p \in Procs |-> IdleProc]
    /\ gitUser = NoGitUser
    /\ sshConfig = <<>>

(***************************************************************************)
(* Commands: each loads the document, works on its Config and saves it     *)
(***************************************************************************)
\* Every command starts with config.LoadConfig(): L is what it returns (the
\* Config and the document as the migrations left it).

\* bgit add
runAdd(user) ==
    \E L \in {LoadConfig(file)} :
    LET r == AddUser(L.cfg, user)
    IN  /\ cfg' = r.cfg
        /\ file' = IF r.err = "" THEN SaveConfig(r.cfg) ELSE L.file
        /\ UNCHANGED <<walk, procs, gitUser, sshConfig>>
        /\ last' = Command
        /\ UNCHANGED <<exists, gitDirs>>

\* A variant that also removes the workspaces and bindings of the alias.
deleteUserCascade(c, i) ==
    LET user == c.Users[i]
        c1   == [c EXCEPT !.Users = SelectSeq(@, LAMBDA u : u.Alias # user.Alias),
                          !.Workspaces = SelectSeq(@, LAMBDA w : w.User # user.Alias),
                          !.Bindings = SelectSeq(@, LAMBDA b : b.User # user.Alias)]
    IN  IF c1.ActiveUser = user.Alias THEN [c1 EXCEPT !.ActiveUser = ""] ELSE c1

\* A variant that removes the user and leaves ActiveUser as it is.
deleteUserKeepsActive(c, i) ==
    [c EXCEPT !.Users = SelectSeq(@, LAMBDA u : u.Alias # c.Users[i].Alias)]

\* The Config runDelete saves once the user is found and the deletion confirmed.
deleteUser(c, i) ==
    LET user == c.Users[i]
        c1   == [c EXCEPT !.Users = SelectSeq(@, LAMBDA u : u.Alias # user.Alias)]
    IN  IF c1.ActiveUser = user.Alias THEN [c1 EXCEPT !.ActiveUser = ""] ELSE c1

\* bgit delete <identifier>; after the save the SSH config is rewritten for
\* the users that remain (the file is writable).
runDelete(identifier, confirmed) ==
    \E L \in {LoadConfig(file)} :
    LET i == FindUser(L.cfg, identifier)
        done == i # 0 /\ confirmed
        c2 == IF done THEN deleteUser(L.cfg, i) ELSE L.cfg
    IN  /\ cfg' = c2
        /\ file' = IF done THEN SaveConfig(c2) ELSE L.file
        /\ sshConfig' = IF done THEN UpdateSSHConfig(sshConfig, c2.Users) ELSE sshConfig
        /\ UNCHANGED <<walk, procs, gitUser>>
        /\ last' = Command
        /\ UNCHANGED <<exists, gitDirs>>

\* bgit use <identifier>. written: how many of SetGlobalUser's two git config
\* calls succeed (2: all); sshOk, saveOk: ssh.UpdateSSHConfig and
\* config.SaveConfig succeed. A step runs only when those before it succeeded.
runUseErr(c, identifier, written, sshOk, saveOk) ==
    IF FindUser(c, identifier) = 0 THEN "user not found"
    ELSE IF written < 2 THEN "failed to update git config"
    ELSE IF ~sshOk THEN "failed to update SSH config"
    ELSE IF ~saveOk THEN "failed to save config"
    ELSE ""

runUse(identifier, written, sshOk, saveOk) ==
    \E L \in {LoadConfig(file)} :
    LET i == FindUser(L.cfg, identifier)
        err == runUseErr(L.cfg, identifier, written, sshOk, saveOk)
        assigned == err \in {"", "failed to save config"}
        c2 == IF assigned THEN [L.cfg EXCEPT !.ActiveUser = L.cfg.Users[i].Alias]
              ELSE L.cfg
    IN  /\ gitUser' = IF i = 0 THEN gitUser
                      ELSE SetGlobalUser(gitUser, L.cfg.Users[i].Name,
                                         L.cfg.Users[i].Email, written)
        /\ sshConfig' = IF i # 0 /\ written = 2 /\ sshOk
                        THEN UpdateSSHConfig(sshConfig, L.cfg.Users)
                        ELSE sshConfig
        /\ cfg' = c2
        /\ file' = IF err = "" THEN SaveConfig(c2) ELSE L.file
        /\ last' = Command
        /\ UNCHANGED <<exists, gitDirs, walk, procs>>

\* createWorkspaces' loop: AddWorkspace for each user, its errors not fatal.
RECURSIVE addWorkspaces(_, _, _)
addWorkspaces(c, basePath, users) ==
    IF users = <<>> THEN c
    ELSE addWorkspaces(AddWorkspace(c, Join(basePath, Head(users).Alias),
                                    Head(users).Alias).cfg,
                       basePath, Tail(users))

\* bgit workspace --path basePath [--users aliases]; os.MkdirAll succeeds.
runWorkspace(basePath, aliases) ==
    \E L \in {LoadConfig(file)} :
    LET c == L.cfg
        unknown == \E k \in DOMAIN aliases : FindUserByAlias(c, aliases[k]) = 0
        users == IF aliases = <<>> THEN c.Users
                 ELSE [k \in DOMAIN aliases |-> c.Users[FindUserByAlias(c, aliases[k])]]
        err == IF ~Stat(exists, basePath) THEN "path does not exist"
               ELSE IF unknown THEN "user not found"
               ELSE IF users = <<>> THEN "no users configured"
               ELSE ""
        c2 == IF err = "" THEN addWorkspaces(c, basePath, users) ELSE c
    IN  /\ cfg' = c2
        /\ file' = IF err = "" THEN SaveConfig(c2) ELSE L.file
        /\ exists' = IF err = ""
                     THEN exists \cup {Join(basePath, users[k].Alias) : k \in DOMAIN users}
                     ELSE exists
        /\ UNCHANGED <<walk, procs, gitUser, sshConfig>>
        /\ last' = Command
        /\ UNCHANGED gitDirs

\* bgit workspace --remove userAlias
runWorkspaceRemove(userAlias) ==
    \E L \in {LoadConfig(file)} :
    LET r == RemoveWorkspace(L.cfg, userAlias)
    IN  /\ cfg' = r.cfg
        /\ file' = IF r.ok THEN SaveConfig(r.cfg) ELSE L.file
        /\ UNCHANGED <<walk, procs, gitUser, sshConfig>>
        /\ last' = Command
        /\ UNCHANGED <<exists, gitDirs>>

\* The error runBind returns for the repository root it found ("" for none);
\* an empty userAlias stands for the active user.
runBindErr(c, repoRoot, userAlias, bindForce) ==
    LET existing == IF repoRoot = <<>> THEN 0 ELSE FindBindingByPath(c, repoRoot)
    IN  IF repoRoot = <<>> THEN "not in a git repository"
        ELSE IF userAlias = "" THEN "no active user set"
        ELSE IF FindUserByAlias(c, userAlias) = 0 THEN "user not found"
        ELSE IF existing # 0 /\ c.Bindings[existing].User # userAlias /\ ~bindForce
        THEN "repository already bound"
        ELSE ""

\* bgit bind [--user bindUser] [--force], run in directory cwd
runBind(cwd, bindUser, bindForce) ==
    \E L \in {LoadConfig(file)} :
    LET c == L.cfg
        gitRoot == findGitRoot(cwd, gitDirs)
        repoRoot == IF gitRoot = <<>> THEN <<>> ELSE Abs(gitRoot)
        userAlias == IF bindUser = "" THEN c.ActiveUser ELSE bindUser
        existing == IF repoRoot = <<>> THEN 0 ELSE FindBindingByPath(c, repoRoot)
        err == runBindErr(c, repoRoot, userAlias, bindForce)
        noop == err = "" /\ existing # 0 /\ c.Bindings[existing].User = userAlias
        r == IF err = "" /\ ~noop THEN AddBinding(c, repoRoot, userAlias)
             ELSE [err |-> err, cfg |-> c]
    IN  /\ cfg' = r.cfg
        /\ file' = IF err = "" /\ ~noop /\ r.err = "" THEN SaveConfig(r.cfg) ELSE L.file
        /\ UNCHANGED <<walk, procs, gitUser, sshConfig>>
        /\ last' = Command
        /\ UNCHANGED <<exists, gitDirs>>

\* bgit bind --remove, run in directory cwd
runBindRemove(cwd) ==
    \E L \in {LoadConfig(file)} :
    LET gitRoot == findGitRoot(cwd, gitDirs)
        repoRoot == IF gitRoot = <<>> THEN <<>> ELSE Abs(gitRoot)
        r == IF repoRoot = <<>> THEN [ok |-> FALSE, cfg |-> L.cfg]
             ELSE RemoveBinding(L.cfg, repoRoot)
    IN  /\ cfg' = r.cfg
        /\ file' = IF r.ok THEN SaveConfig(r.cfg) ELSE L.file
        /\ UNCHANGED <<walk, procs, gitUser, sshConfig>>
        /\ last' = Command
        /\ UNCHANGED <<exists, gitDirs>>

\* identity.ResolveIdentity(cfg, path) on the Config the command holds
CallResolveIdentity(path) ==
    /\ UNCHANGED <<walk, procs, gitUser, sshConfig>>
    /\ last' = [op |-> "ResolveIdentity", path |-> path,
                res |-> ResolveIdentity(cfg, path, gitDirs),
                err |-> ResolveIdentityErr(cfg, path, gitDirs)]
    /\ UNCHANGED <<cfg, file, exists, gitDirs>>

\* Inputs of the commands
CmdUsers == {User("a", "ea", "ga", ""), User("b", "eb", "gb", "")}
CmdIdentifiers == {"a", "b"}
CmdOutcomes == {<<2, TRUE, TRUE>>, <<0, TRUE, TRUE>>, <<2, FALSE, TRUE>>}
CmdBasePaths == {Root, PathA}
CmdAliasLists == {<<>>, <<"a">>, <<"b">>}
CmdDirs == {PathAR, PathA}
CmdBindUsers == {"", "a", "b"}
ResolvePaths == {Root, PathA, PathAB, PathAR}

Next ==
    \/ \E u \in CmdUsers : runAdd(u)
    \/ \E id \in CmdIdentifiers, confirmed \in BOOLEAN : runDelete(id, confirmed)
    \/ \E id \in CmdIdentifiers, ok \in CmdOutcomes : runUse(id, ok[1], ok[2], ok[3])
    \/ \E base \in CmdBasePaths, aliases \in CmdAliasLists : runWorkspace(base, aliases)
    \/ \E a \in CmdBindUsers \ {""} : runWorkspaceRemove(a)
    \/ \E d \in CmdDirs, u \in CmdBindUsers, f \in BOOLEAN : runBind(d, u, f)
    \/ \E d \in CmdDirs : runBindRemove(d)
    \/ \E p \in ResolvePaths : CallResolveIdentity(p)

Spec == Init /\ [][Next]_vars

(***************************************************************************)
(* The config store's methods, called on the Config a command holds        *)
(***************************************************************************)
CallAddUser(user) ==
    LET r == AddUser(cfg, user)
    IN  /\ cfg' = r.cfg
        /\ UNCHANGED <<walk, procs, gitUser, sshConfig>>
        /\ last' = [op |-> "AddUser", user |-> user, err |-> r.err, before |-> cfg]
        /\ UNCHANGED <<file, exists, gitDirs>>

CallAddWorkspace(path, userAlias) ==
    LET r == AddWorkspace(cfg, path, userAlias)
    IN  /\ cfg' = r.cfg
        /\ UNCHANGED <<walk, procs, gitUser, sshConfig>>
        /\ last' = [op |-> "AddWorkspace", path |-> path, user |-> userAlias,
                    err |-> r.err, before |-> cfg]
        /\ UNCHANGED <<file, exists, gitDirs>>

CallRemoveWorkspace(userAlias) ==
    LET r == RemoveWorkspace(cfg, userAlias)
    IN  /\ cfg' = r.cfg
        /\ UNCHANGED <<walk, procs, gitUser, sshConfig>>
        /\ last' = [op |-> "RemoveWorkspace", user |-> userAlias, ok |-> r.ok,
                    before |-> cfg]
        /\ UNCHANGED <<file, exists, gitDirs>>

CallRemoveWorkspaceByPath(path) ==
    LET r == RemoveWorkspaceByPath(cfg, path)
    IN  /\ cfg' = r.cfg
        /\ UNCHANGED <<walk, procs, gitUser, sshConfig>>
        /\ last' = [op |-> "RemoveWorkspaceByPath", path |-> path, ok |-> r.ok,
                    before |-> cfg]
        /\ UNCHANGED <<file, exists, gitDirs>>

CallAddBinding(path, userAlias) ==
    LET r == AddBinding(cfg, path, userAlias)
    IN  /\ cfg' = r.cfg
        /\ UNCHANGED <<walk, procs, gitUser, sshConfig>>
        /\ last' = [op |-> "AddBinding", path |-> path, user |-> userAlias,
                    err |-> r.err, before |-> cfg]
        /\ UNCHANGED <<file, exists, gitDirs>>

CallRemoveBinding(path) ==
    LET r == RemoveBinding(cfg, path)
    IN  /\ cfg' = r.cfg
        /\ UNCHANGED <<walk, procs, gitUser, sshConfig>>
        /\ last' = [op |-> "RemoveBinding", path |-> path, ok |-> r.ok,
                    before |-> cfg]
        /\ UNCHANGED <<file, exists, gitDirs>>

\* prev: what the call directly before this one returned, <<>> when the
\* operation before this one was not a call of CleanupInvalidPaths.
CallCleanupInvalidPaths ==
    LET r == CleanupInvalidPaths(cfg, exists)
    IN  /\ cfg' = r.cfg
        /\ UNCHANGED <<walk, procs, gitUser, sshConfig>>
        /\ last' = [op |-> "CleanupInvalidPaths", removed |-> r.removed,
                    before |-> cfg,
                    prev |-> IF last.op = "CleanupInvalidPaths" THEN <<last.removed>>
                             ELSE <<>>]
        /\ UNCHANGED <<file, exists, gitDirs>>

CallSaveConfig ==
    /\ file' = SaveConfig(cfg)
    /\ UNCHANGED <<walk, procs, gitUser, sshConfig>>
    /\ last' = [op |-> "SaveConfig"]
    /\ UNCHANGED <<cfg, exists, gitDirs>>

\* saved: the Config the SaveConfig call directly before this load wrote,
\* <<>> when the operation before this one was not a call of SaveConfig.
CallLoadConfig ==
    LET L == LoadConfig(file)
    IN  /\ cfg' = L.cfg
        /\ file' = L.file
        /\ UNCHANGED <<walk, procs, gitUser, sshConfig>>
        /\ last' = [op |-> "LoadConfig", before |-> file,
                    saved |-> IF last.op = "SaveConfig" THEN <<cfg>> ELSE <<>>]
        /\ UNCHANGED <<exists, gitDirs>>

\* bgit update <identifier> --ssh-key key (the key file is valid, the SSH
\* config file writable)
runUpdate(identifier, key) ==
    \E L \in {LoadConfig(file)} :
    LET c == L.cfg
        i == FindUser(c, identifier)
        k == IF i = 0 THEN 0 ELSE FindUserByAlias(c, c.Users[i].Alias)
        c2 == IF i = 0 THEN c ELSE [c EXCEPT !.Users[k].SSHKeyPath = key]
    IN  /\ cfg' = c2
        /\ file' = IF i = 0 THEN L.file ELSE SaveConfig(c2)
        /\ sshConfig' = IF i = 0 THEN sshConfig ELSE UpdateSSHConfig(sshConfig, c2.Users)
        /\ UNCHANGED <<walk, procs, gitUser>>
        /\ last' = Command
        /\ UNCHANGED <<exists, gitDirs>>

\* runDelete between its load and its save, on the Config it holds: the user
\* is looked up and, when found (the deletion confirmed), removed.
CallDeleteUser(identifier) ==
    LET i == FindUser(cfg, identifier)
    IN  /\ cfg' = IF i = 0 THEN cfg ELSE deleteUser(cfg, i)
        /\ UNCHANGED <<walk, procs, gitUser, sshConfig>>
        /\ last' = [op |-> "delete", identifier |-> identifier, found |-> i,
                    before |-> cfg]
        /\ UNCHANGED <<file, exists, gitDirs>>

\* The environment: a directory is created, or removed with all it holds.
Mkdir(path) ==
    /\ path \notin exists
    /\ Dir(path) \in exists
    /\ exists' = exists \cup {path}
    /\ UNCHANGED <<walk, procs, gitUser, sshConfig>>
    /\ last' = [op |-> "mkdir"]
    /\ UNCHANGED <<cfg, file, gitDirs>>

RemoveAll(path) ==
    /\ path \in exists
    /\ exists' = {d \in exists : ~HasPrefix(d \o <<Separator>>, path \o <<Separator>>)}
    /\ gitDirs' = {d \in gitDirs : ~HasPrefix(d \o <<Separator>>, path \o <<Separator>>)}
    /\ UNCHANGED <<walk, procs, gitUser, sshConfig>>
    /\ last' = [op |-> "rm -r"]
    /\ UNCHANGED <<cfg, file>>

(***************************************************************************)
(* SpecWorkspaces: users and the workspace list                            *)
(***************************************************************************)
StoreUsers == {User("a", "ea", "ga", ""), User("b", "eb", "gb", "")}
StoreAliases == {"a", "b", "c"}
StorePaths == {PathA, PathAB, PathB}
EnvDirs == {PathA, PathB}

WorkspacesNext ==
    \/ \E u \in StoreUsers : CallAddUser(u)
    \/ \E p \in StorePaths, a \in StoreAliases : CallAddWorkspace(p, a)
    \/ \E a \in StoreAliases : CallRemoveWorkspace(a)
    \/ \E p \in StorePaths : CallRemoveWorkspaceByPath(p)
    \/ CallCleanupInvalidPaths
    \/ \E p \in EnvDirs : Mkdir(p)
    \/ \E p \in EnvDirs : RemoveAll(p)

SpecWorkspaces == Init /\ [][WorkspacesNext]_vars

(***************************************************************************)
(* SpecBindings: users and the binding list                                *)
(***************************************************************************)
BindingsNext ==
    \/ \E u \in StoreUsers : CallAddUser(u)
    \/ \E p \in StorePaths, a \in StoreAliases : CallAddBinding(p, a)
    \/ \E p \in StorePaths : CallRemoveBinding(p)

SpecBindings == Init /\ [][BindingsNext]_vars

(***************************************************************************)
(* SpecUsers: the user list and its persistence                            *)
(***************************************************************************)
UserAliases == {"", "x"}
UserEmails == {"e1", "e2"}
UserNames == {"x", "y"}
UserInputs == {User(a, e, g, "") : a \in UserAliases, e \in UserEmails, g \in UserNames}
UserIdentifiers == {"x", "y"}

UsersNext ==
    \/ \E u \in UserInputs : CallAddUser(u)
    \/ \E id \in UserIdentifiers : runDelete(id, TRUE)
    \/ \E id \in UserIdentifiers : CallDeleteUser(id)
    \/ \E id \in UserIdentifiers : runUpdate(id, "k")
    \/ CallSaveConfig
    \/ CallLoadConfig

SpecUsers == Init /\ [][UsersNext]_vars

(***************************************************************************)
(* SpecResolve: bindings on any directory, repositories that come and go,  *)
(* and the resolution of a path                                            *)
(***************************************************************************)
\* The environment: `git init` in a directory puts a ".git" directory there.
GitInit(path) ==
    /\ path \in exists
    /\ path \notin gitDirs
    /\ gitDirs' = gitDirs \cup {path}
    /\ UNCHANGED <<walk, procs, gitUser, sshConfig>>
    /\ last' = [op |-> "git init"]
    /\ UNCHANGED <<cfg, file, exists>>

BindPaths == {Root, PathA, PathAR}
BindAliases == {"a", "b"}
RepoDirs == {Root, PathA}

ResolveNext ==
    \/ \E u \in StoreUsers : CallAddUser(u)
    \/ \E p \in BindPaths, a \in BindAliases : CallAddBinding(p, a)
    \/ \E p \in RepoDirs : GitInit(p)
    \/ RemoveAll(PathAR)
    \/ Mkdir(PathAR)
    \/ \E p \in ResolvePaths : CallResolveIdentity(p)

SpecResolve == Init /\ [][ResolveNext]_vars

(***************************************************************************)
(* SpecCleanup: workspaces and bindings whose directories come and go      *)
(***************************************************************************)
CleanupUsers == {User("a", "ea", "ga", "")}
CleanupWorkspacePaths == {PathA, PathB}
CleanupBindingPaths == {PathAR, PathB}

CleanupNext ==
    \/ \E u \in CleanupUsers : CallAddUser(u)
    \/ CallSaveConfig
    \/ runUse("a", 2, TRUE, TRUE)
    \/ \E p \in CleanupWorkspacePaths : CallAddWorkspace(p, "a")
    \/ \E p \in CleanupBindingPaths : CallAddBinding(p, "a")
    \/ \E p \in EnvDirs : Mkdir(p)
    \/ \E p \in EnvDirs : RemoveAll(p)
    \/ CallCleanupInvalidPaths

SpecCleanup == Init /\ [][CleanupNext]_vars

(***************************************************************************)
(* SpecPersist: users added and selected by the commands, the Config saved *)
(* and loaded                                                              *)
(***************************************************************************)
\* Each user has an alias; the alias of one is the GitHub username of another.
PersistUsers ==
    {User("x", "e1", "y", ""), User("y", "e2", "x", ""), User("z", "e3", "z", "")}
PersistIdentifiers == {"x", "y", "z"}

\* cfg.FindUser(identifier) on the Config the command holds
CallFindUser(identifier) ==
    /\ last' = [op |-> "FindUser", identifier |-> identifier,
                found |-> FindUser(cfg, identifier)]
    /\ UNCHANGED <<cfg, file, exists, gitDirs, walk, procs, gitUser, sshConfig>>

PersistNext ==
    \/ \E u \in PersistUsers : runAdd(u)
    \/ \E id \in PersistIdentifiers : runUse(id, 2, TRUE, TRUE)
    \/ \E id \in PersistIdentifiers : runDelete(id, TRUE)
    \/ CallSaveConfig
    \/ CallLoadConfig
    \/ \E id \in PersistIdentifiers : CallFindUser(id)

SpecPersist == Init /\ [][PersistNext]_vars

(***************************************************************************)
(* SpecConcurrent: two `bgit add` invocations on one config file           *)
(***************************************************************************)
\* runAdd up to its save: the invocation loads the document into a Config of
\* its own and adds the user to it; an AddUser error ends the invocation.
runAddLoad(p, user) ==
    \E L \in {LoadConfig(file)} :
    LET r == AddUser(L.cfg, user)
    IN  /\ procs[p].pc = "idle"
        /\ procs' = [procs EXCEPT ![p] =
                        [pc |-> IF r.err = "" THEN "loaded" ELSE "done",
                         user |-> user, cfg |-> r.cfg, err |-> r.err]]
        /\ file' = L.file
        /\ last' = Command
        /\ UNCHANGED <<cfg, exists, gitDirs, walk, gitUser, sshConfig>>

\* A variant of the save that reads the document again and adds the user to
\* what it holds now.
runAddDocumentReloaded(proc, f) ==
    SaveConfig(AddUser(LoadConfig(f).cfg, proc.user).cfg)

\* The document runAdd's SaveConfig leaves: the file is opened with O_TRUNC
\* and written from the invocation's Config, whatever it held.
runAddDocument(proc, f) == SaveConfig(proc.cfg)

\* runAdd's save and its report of success.
runAddSave(p) ==
    /\ procs[p].pc = "loaded"
    /\ file' = runAddDocument(procs[p], file)
    /\ procs' = [procs EXCEPT ![p].pc = "done"]
    /\ last' = Command
    /\ UNCHANGED <<cfg, exists, gitDirs, walk, gitUser, sshConfig>>

\* The invocation exits.
runAddExit(p) ==
    /\ procs[p].pc = "done"
    /\ procs' = [procs EXCEPT ![p] = IdleProc]
    /\ last' = Command
    /\ UNCHANGED <<cfg, file, exists, gitDirs, walk, gitUser, sshConfig>>

ConcurrentUsers ==
    {User("a", "ea", "ga", ""), User("b", "eb", "gb", ""), User("c", "ec", "gc", "")}

ConcurrentNext ==
    \/ \E p \in Procs, u \in ConcurrentUsers : runAddLoad(p, u)
    \/ \E p \in Procs : runAddSave(p)
    \/ \E p \in Procs : runAddExit(p)

SpecConcurrent == Init /\ [][ConcurrentNext]_vars

(***************************************************************************)
(* SpecPaths: isPathInside on pairs of paths                               *)
(***************************************************************************)
\* config.isPathInside(childPath, parentPath), which identity.IsInsidePath
\* repeats line for line
CallIsPathInside(childPath, parentPath) ==
    /\ UNCHANGED <<walk, procs, gitUser, sshConfig>>
    /\ last' = [op |-> "isPathInside", child |-> childPath, parent |-> parentPath,
                res |-> isPathInside(childPath, parentPath)]
    /\ UNCHANGED <<cfg, file, exists, gitDirs>>

PathABC == <<"/", "a", "/", "b", "c">>
PathABsC == <<"/", "a", "/", "b", "/", "c">>
PathAb == <<"/", "a", "b">>
PathInputs ==
    {Root, PathA, PathA \o <<Separator>>, PathB, PathAb, PathAA, PathAB,
     PathAB \o <<Separator>>, PathABC, PathABsC, PathABsC \o <<Separator>>}

PathsNext == \E child \in PathInputs, parent \in PathInputs : CallIsPathInside(child, parent)

SpecPaths == Init /\ [][PathsNext]_vars

(***************************************************************************)
(* SpecWalk: findGitRoot, one loop iteration at a time                     *)
(***************************************************************************)
\* findGitRoot(path) up to the loop: current is the absolute path.
findGitRootCall(path) ==
    /\ walk.pc = "idle"
    /\ walk' = [pc |-> "loop", start |-> path, current |-> Abs(path), checks |-> 0,
                result |-> <<>>]
    /\ last' = [op |-> "findGitRoot called"]
    /\ UNCHANGED <<cfg, file, exists, gitDirs, procs, gitUser, sshConfig>>

\* A variant of the loop body without the test for the root.
findGitRootLoopNoRootTest(w, git) ==
    IF w.current \in git
    THEN [w EXCEPT !.pc = "done", !.checks = @ + 1, !.result = w.current]
    ELSE [w EXCEPT !.checks = @ + 1, !.current = Dir(w.current)]

\* One iteration of the loop on the walk w: os.Stat of the ".git" directory of
\* current, then return current, return "" at the root, or go to the parent.
findGitRootLoop(w, git) ==
    IF w.current \in git
    THEN [w EXCEPT !.pc = "done", !.checks = @ + 1, !.result = w.current]
    ELSE IF Dir(w.current) = w.current
    THEN [w EXCEPT !.pc = "done", !.checks = @ + 1, !.result = <<>>]
    ELSE [w EXCEPT !.checks = @ + 1, !.current = Dir(w.current)]

findGitRootStep ==
    /\ walk.pc = "loop"
    /\ walk' = findGitRootLoop(walk, gitDirs)
    /\ last' = [op |-> "findGitRoot loop"]
    /\ UNCHANGED <<cfg, file, exists, gitDirs, procs, gitUser, sshConfig>>

\* The caller takes the result.
findGitRootReturn ==
    /\ walk.pc = "done"
    /\ walk' = NoWalk
    /\ last' = [op |-> "findGitRoot", path |-> walk.start, res |-> walk.result,
                checks |-> walk.checks]
    /\ UNCHANGED <<cfg, file, exists, gitDirs, procs, gitUser, sshConfig>>

WalkPaths == {Root, PathA, PathAR, PathAB, PathABsC, PathABsC \o <<Separator>>}

\* The filesystem changes between calls only.
WalkNext ==
    \/ \E p \in WalkPaths : findGitRootCall(p)
    \/ findGitRootStep
    \/ findGitRootReturn
    \/ \E p \in RepoDirs : walk.pc = "idle" /\ GitInit(p)
    \/ walk.pc = "idle" /\ RemoveAll(PathAR)
    \/ walk.pc = "idle" /\ Mkdir(PathAR)

\* The loop is sequential code: an iteration that can run does run.
SpecWalk == Init /\ [][WalkNext]_vars /\ WF_vars(findGitRootStep)

(***************************************************************************)
(* Properties of identity resolution (under Spec)                          *)
(***************************************************************************)
Resolved == last.op = "ResolveIdentity"

AliasExists(alias) == \E i \in DOMAIN cfg.Users : cfg.Users[i].Alias = alias

\* The workspaces of cfg that contain path p.
Containing(p) ==
    {i \in DOMAIN cfg.Workspaces : isPathInside(p, cfg.Workspaces[i].Path)}

\* The first of them in list order (Containing(p) is not empty).
FirstContaining(p) == CHOOSE i \in Containing(p) : \A j \in Containing(p) : i <= j

\* The bindings of cfg whose path is the repository root enclosing p.
RootBindings(p) ==
    {b \in DOMAIN cfg.Bindings :
        /\ findGitRoot(p, gitDirs) # <<>>
        /\ cfg.Bindings[b].Path = findGitRoot(p, gitDirs)}

\* C1: when a workspace (the one matched for the path, its alias that of a
\* user) contains the path, a binding exists for the enclosing repository
\* root and a global active user is set, the resolution is the workspace's
\* alias with source "workspace".
C1_WorkspaceFirst ==
    (/\ Resolved
     /\ Containing(last.path) # {}
     /\ AliasExists(cfg.Workspaces[FirstContaining(last.path)].User)
     /\ RootBindings(last.path) # {}
     /\ cfg.ActiveUser # "")
    => /\ last.res.Source = SourceWorkspace
       /\ last.res.Alias = cfg.Workspaces[FirstContaining(last.path)].User
       /\ last.res.Path = cfg.Workspaces[FirstContaining(last.path)].Path

\* C1's case: workspace, binding and global all apply, and both the binding
\* and the global active user name another user than the workspace.
C1_Witness ==
    /\ Resolved
    /\ Containing(last.path) # {}
    /\ AliasExists(cfg.Workspaces[FirstContaining(last.path)].User)
    /\ \E b \in RootBindings(last.path) :
          /\ AliasExists(cfg.Bindings[b].User)
          /\ cfg.Bindings[b].User # cfg.Workspaces[FirstContaining(last.path)].User
    /\ AliasExists(cfg.ActiveUser)
    /\ cfg.ActiveUser # cfg.Workspaces[FirstContaining(last.path)].User
    /\ last.res.Source = SourceWorkspace

\* C2: a binding for repository root R overrides a workspace that contains R
\* and is bound to a different user: resolving R gives the binding's user
\* with source "binding".
C2_BindingOverridesWorkspace ==
    \A b \in DOMAIN cfg.Bindings :
        (/\ Resolved
         /\ last.path = cfg.Bindings[b].Path
         /\ last.path \in gitDirs
         /\ AliasExists(cfg.Bindings[b].User)
         /\ Containing(last.path) # {}
         /\ AliasExists(cfg.Workspaces[FirstContaining(last.path)].User)
         /\ cfg.Workspaces[FirstContaining(last.path)].User # cfg.Bindings[b].User)
        => /\ last.res.Source = SourceBinding
           /\ last.res.Alias = cfg.Bindings[b].User

\* C3: when the workspace matched for the path has an alias no user carries,
\* the resolution is not a workspace resolution and has no nil user: it is the
\* binding of the enclosing repository root if that resolves, else the global
\* active user if that resolves, else no resolution.
C3_DanglingWorkspaceFallsThrough ==
    (/\ Resolved
     /\ Containing(last.path) # {}
     /\ ~AliasExists(cfg.Workspaces[FirstContaining(last.path)].User))
    => LET bound == {b \in RootBindings(last.path) : AliasExists(cfg.Bindings[b].User)}
           r     == last.res
       IN  /\ r.Source # SourceWorkspace
           /\ r # NoResolution =>
                 /\ r.User \in DOMAIN cfg.Users
                 /\ cfg.Users[r.User].Alias = r.Alias
           /\ bound # {} =>
                 /\ r.Source = SourceBinding
                 /\ \E b \in bound : /\ r.Alias = cfg.Bindings[b].User
                                     /\ r.Path = cfg.Bindings[b].Path
           /\ (bound = {} /\ cfg.ActiveUser # "" /\ AliasExists(cfg.ActiveUser)) =>
                 /\ r.Source = SourceGlobal
                 /\ r.Alias = cfg.ActiveUser
                 /\ r.Path = <<>>
           /\ (bound = {} /\ ~(cfg.ActiveUser # "" /\ AliasExists(cfg.ActiveUser)))
                 => r = NoResolution

\* C3's case: the matched workspace dangles and the binding took over.
C3_Witness ==
    /\ Resolved
    /\ Containing(last.path) # {}
    /\ ~AliasExists(cfg.Workspaces[FirstContaining(last.path)].User)
    /\ last.res.Source = SourceBinding

\* C10: when several workspaces contain the path, FindWorkspaceByPath, and so
\* ResolveIdentity, uses the first of them in list order, whichever is deeper.
C10_FirstWorkspaceWins ==
    (Resolved /\ Containing(last.path) # {})
    => LET first == FirstContaining(last.path)
       IN  /\ FindWorkspaceByPath(cfg, last.path) = first
           /\ last.res.Source = SourceWorkspace =>
                 /\ last.res.Path = cfg.Workspaces[first].Path
                 /\ last.res.Alias = cfg.Workspaces[first].User
           /\ AliasExists(cfg.Workspaces[first].User) =>
                 last.res.Source = SourceWorkspace

\* C10's case: a workspace and, later in the list, a workspace nested under
\* it for another user both contain the path; the outer one is used.
C10_Witness ==
    /\ Resolved
    /\ \E i, j \in Containing(last.path) :
          /\ i = FirstContaining(last.path)
          /\ i < j
          /\ Len(cfg.Workspaces[i].Path) < Len(cfg.Workspaces[j].Path)
          /\ AliasExists(cfg.Workspaces[j].User)
          /\ cfg.Workspaces[i].User # cfg.Workspaces[j].User
          /\ last.res.Source = SourceWorkspace
          /\ last.res.Path = cfg.Workspaces[i].Path

\* The workspace step of the resolution yields no user: no workspace contains
\* p, or the alias of the first that does is that of no user.
NoWorkspaceUser(p) ==
    \/ Containing(p) = {}
    \/ ~AliasExists(cfg.Workspaces[FirstContaining(p)].User)

\* The binding step yields no user: no binding on the repository root
\* enclosing p has the alias of a user.
NoBindingUser(p) ==
    \A b \in RootBindings(p) : ~AliasExists(cfg.Bindings[b].User)

\* C13: when neither a workspace nor a binding yields a user for the path and
\* ActiveUser is non-empty and the alias of a user, the resolution is that
\* user, with alias ActiveUser, source "global" and an empty path.
C13_GlobalFallback ==
    (/\ Resolved
     /\ NoWorkspaceUser(last.path)
     /\ NoBindingUser(last.path)
     /\ cfg.ActiveUser # ""
     /\ AliasExists(cfg.ActiveUser))
    => /\ last.res.Source = SourceGlobal
       /\ last.res.Alias = cfg.ActiveUser
       /\ last.res.Path = <<>>
       /\ last.res.User \in DOMAIN cfg.Users
       /\ cfg.Users[last.res.User].Alias = cfg.ActiveUser

\* C13's case: a workspace contains the path and the enclosing repository is
\* bound, both to an alias no user carries, and the global user was returned.
C13_Witness ==
    /\ Resolved
    /\ Containing(last.path) # {}
    /\ NoWorkspaceUser(last.path)
    /\ RootBindings(last.path) # {}
    /\ NoBindingUser(last.path)
    /\ last.res.Source = SourceGlobal
    /\ last.res.Alias = cfg.ActiveUser

\* C14: ResolveIdentity never returns an error, and when neither a workspace
\* nor a binding nor the global active user yields a user it returns the
\* absent result.
C14_NeverAnError ==
    Resolved =>
        /\ last.err = ""
        /\ (/\ NoWorkspaceUser(last.path)
            /\ NoBindingUser(last.path)
            /\ ~(cfg.ActiveUser # "" /\ AliasExists(cfg.ActiveUser)))
           => last.res = NoResolution

\* C14's case: users are configured, the path lies in a workspace and in a
\* bound repository, none of the three steps yields a user, and the result is
\* the absent one without an error.
C14_Witness ==
    /\ Resolved
    /\ cfg.Users # <<>>
    /\ Containing(last.path) # {}
    /\ RootBindings(last.path) # {}
    /\ last.res = NoResolution
    /\ last.err = ""

(***************************************************************************)
(* Properties of the user list (under SpecUsers)                           *)
(***************************************************************************)
\* The users of list `users` that share the alias, e-mail or GitHub username
\* of user u.
Colliding(users, u) ==
    {i \in DOMAIN users : \/ users[i].Alias = u.Alias
                          \/ users[i].Email = u.Email
                          \/ users[i].GitHubUsername = u.GitHubUsername}

\* C4: an AddUser call whose alias, e-mail or GitHub username is that of a user
\* already present fails and leaves the Users list as it was; the error is
\* that of the first colliding user in list order, its alias compared first,
\* then its e-mail, then its GitHub username.
C4_DuplicateUserRejected ==
    (last.op = "AddUser" /\ Colliding(last.before.Users, last.user) # {})
    => LET hit == Colliding(last.before.Users, last.user)
           old == last.before.Users[CHOOSE i \in hit : \A j \in hit : i <= j]
       IN  /\ last.err # ""
           /\ cfg.Users = last.before.Users
           /\ last.err = IF old.Alias = last.user.Alias THEN "alias exists"
                         ELSE IF old.Email = last.user.Email THEN "email exists"
                         ELSE "github exists"

\* C4's case: a user whose alias and e-mail are new and whose GitHub username
\* is taken was rejected.
C4_Witness ==
    /\ last.op = "AddUser"
    /\ last.err = "github exists"
    /\ \A i \in DOMAIN last.before.Users :
          /\ last.before.Users[i].Alias # last.user.Alias
          /\ last.before.Users[i].Email # last.user.Email
    /\ cfg.Users = last.before.Users

\* C5: no two users share an alias, an e-mail or a GitHub username.
C5_UsersUnique ==
    \A i, j \in DOMAIN cfg.Users :
        i # j => /\ cfg.Users[i].Alias # cfg.Users[j].Alias
                 /\ cfg.Users[i].Email # cfg.Users[j].Email
                 /\ cfg.Users[i].GitHubUsername # cfg.Users[j].GitHubUsername

\* C16: deleting user U removes exactly U from Users, the others kept in
\* order, clears ActiveUser when, and only when, it was U's alias, and leaves
\* Workspaces and Bindings as they were.
C16_DeleteFrame ==
    (last.op = "delete" /\ last.found # 0)
    => LET U == last.before.Users[last.found]
       IN  /\ cfg.Users = RemoveAt(last.before.Users, last.found)
           /\ cfg.ActiveUser = IF last.before.ActiveUser = U.Alias THEN ""
                               ELSE last.before.ActiveUser
           /\ cfg.Workspaces = last.before.Workspaces
           /\ cfg.Bindings = last.before.Bindings

(***************************************************************************)
(* Properties of the binding list (under SpecBindings)                     *)
(***************************************************************************)
\* C6: there is at most one binding per path, and AddBinding for a path that
\* has a binding leaves the list as it was but for that entry's user, which is
\* the new alias.
C6_BindingUpsert ==
    /\ \A i, j \in DOMAIN cfg.Bindings :
          i # j => cfg.Bindings[i].Path # cfg.Bindings[j].Path
    /\ last.op = "AddBinding" =>
          \A i \in DOMAIN last.before.Bindings :
              last.before.Bindings[i].Path = last.path =>
                  /\ last.err = ""
                  /\ cfg.Bindings =
                        [last.before.Bindings EXCEPT ![i] = Binding(last.path, last.user)]

\* C6's case: the first of two bindings was re-added with another alias.
C6_Witness ==
    /\ last.op = "AddBinding"
    /\ Len(last.before.Bindings) = 2
    /\ last.before.Bindings[1].Path = last.path
    /\ last.before.Bindings[1].User # last.user
    /\ Len(cfg.Bindings) = 2
    /\ cfg.Bindings[1] = Binding(last.path, last.user)

\* C7: an AddBinding call whose alias is that of no user is rejected with
\* "user not found" and leaves the Bindings list as it was.
C7_UnknownUserRejected ==
    (/\ last.op = "AddBinding"
     /\ \A i \in DOMAIN last.before.Users : last.before.Users[i].Alias # last.user)
    => /\ last.err = "user not found"
       /\ cfg.Bindings = last.before.Bindings

(***************************************************************************)
(* Properties of the workspace list (under SpecWorkspaces)                 *)
(***************************************************************************)
\* C8: no two workspaces have the same path.
C8_WorkspacePathsUnique ==
    \A i, j \in DOMAIN cfg.Workspaces :
        i # j => cfg.Workspaces[i].Path # cfg.Workspaces[j].Path

\* C8's case: with two workspaces in the list, adding one of their paths again
\* for a known user was refused.
C8_Witness ==
    /\ last.op = "AddWorkspace"
    /\ Len(cfg.Workspaces) = 2
    /\ \E i \in DOMAIN cfg.Workspaces : cfg.Workspaces[i].Path = last.path
    /\ \E i \in DOMAIN cfg.Users : cfg.Users[i].Alias = last.user
    /\ last.err = "workspace exists"

\* C9: AddWorkspace fails with "workspace exists" when the path is that of a
\* workspace (also when the alias is unknown), else with "user not found" when
\* the alias is that of no user, and else appends the workspace at the end; a
\* failed call leaves the list as it was.
C9_AddWorkspace ==
    last.op = "AddWorkspace" =>
        LET duplicate == \E i \in DOMAIN last.before.Workspaces :
                            last.before.Workspaces[i].Path = last.path
            known     == \E i \in DOMAIN last.before.Users :
                            last.before.Users[i].Alias = last.user
        IN  /\ duplicate =>
                 /\ last.err = "workspace exists"
                 /\ cfg.Workspaces = last.before.Workspaces
            /\ (~duplicate /\ ~known) =>
                 /\ last.err = "user not found"
                 /\ cfg.Workspaces = last.before.Workspaces
            /\ (~duplicate /\ known) =>
                 /\ last.err = ""
                 /\ cfg.Workspaces =
                       Append(last.before.Workspaces, Workspace(last.path, last.user))

\* C9's case: the path is a duplicate and the alias unknown; the duplicate
\* path is what was reported.
C9_Witness ==
    /\ last.op = "AddWorkspace"
    /\ \E i \in DOMAIN last.before.Workspaces :
          last.before.Workspaces[i].Path = last.path
    /\ \A i \in DOMAIN last.before.Users : last.before.Users[i].Alias # last.user
    /\ last.err = "workspace exists"
    /\ cfg.Workspaces = last.before.Workspaces

(***************************************************************************)
(* Properties of the binding lookup (under SpecResolve)                    *)
(***************************************************************************)
\* The directory p (cleaned) and its ancestors up to the root.
SelfAndAncestors(p) ==
    {Abs(SubSeq(Abs(p), 1, k)) :
        k \in {j \in 1..Len(Abs(p)) :
                  j = 1 \/ j = Len(Abs(p)) \/ Abs(p)[j + 1] = Separator}}

\* The deepest directory among p and its ancestors that holds a ".git"
\* directory, <<>> when none does.
NearestRoot(p) ==
    LET S == SelfAndAncestors(p) \cap gitDirs
    IN  IF S = {} THEN <<>>
        ELSE CHOOSE d \in S : \A e \in S : Len(e) <= Len(d)

\* C11: a resolution by binding is that of a binding whose path is exactly
\* the nearest enclosing repository root of the start path: never a binding
\* on another ancestor, on a directory without a marker or on an outer
\* repository.
C11_BindingAtNearestRoot ==
    (Resolved /\ last.res.Source = SourceBinding)
    => /\ NearestRoot(last.path) # <<>>
       /\ last.res.Path = NearestRoot(last.path)
       /\ \E b \in DOMAIN cfg.Bindings :
             /\ cfg.Bindings[b].Path = NearestRoot(last.path)
             /\ cfg.Bindings[b].User = last.res.Alias

\* C11's case: the start path lies in a repository nested in an outer
\* repository, both are bound, to different users, and the inner binding is
\* the one selected.
C11_Witness ==
    /\ Resolved
    /\ last.res.Source = SourceBinding
    /\ \E i, o \in DOMAIN cfg.Bindings :
          /\ cfg.Bindings[o].Path \in gitDirs
          /\ cfg.Bindings[o].Path \in SelfAndAncestors(last.path)
          /\ Len(cfg.Bindings[o].Path) < Len(cfg.Bindings[i].Path)
          /\ AliasExists(cfg.Bindings[o].User)
          /\ cfg.Bindings[o].User # cfg.Bindings[i].User
          /\ last.res.Path = cfg.Bindings[i].Path
          /\ last.res.Alias = cfg.Bindings[i].User

(***************************************************************************)
(* Properties of isPathInside (under SpecPaths)                            *)
(***************************************************************************)
\* The index of the last character of the first component of p, which starts
\* with a character other than the separator.
FirstComponentEnd(p) ==
    LET seps == {i \in 1..Len(p) : p[i] = Separator}
    IN  IF seps = {} THEN Len(p) ELSE (CHOOSE i \in seps : \A j \in seps : i <= j) - 1

\* The components of a path: "/a/bc/" is <<"a", "bc">> (here <<<<"a">>,
\* <<"b","c">>>>), "/" is <<>>.
RECURSIVE Components(_)
Components(p) ==
    IF p = <<>> THEN <<>>
    ELSE IF Head(p) = Separator THEN Components(Tail(p))
    ELSE <<SubSeq(p, 1, FirstComponentEnd(p))>>
         \o Components(SubSeq(p, FirstComponentEnd(p) + 1, Len(p)))

\* C12: isPathInside(child, parent) is true exactly when child and parent have
\* the same components or parent's components are a proper prefix of child's.
C12_IsPathInside ==
    last.op = "isPathInside" =>
        LET child  == Components(last.child)
            parent == Components(last.parent)
        IN  last.res <=> (\/ child = parent
                          \/ /\ Len(parent) < Len(child)
                             /\ SubSeq(child, 1, Len(parent)) = parent)

\* C12's case: "/a/bc" has been found not to be inside "/a/b".
C12_Witness ==
    /\ last.op = "isPathInside"
    /\ last.child = PathABC
    /\ last.parent = PathAB
    /\ last.res = FALSE

(***************************************************************************)
(* Properties of findGitRoot's loop (under SpecWalk)                       *)
(***************************************************************************)
\* The number of components of a path: 0 for the root.
Depth(p) == Len(Components(p))

\* C15: findGitRoot terminates on every start path. An iteration returns
\* current when it holds the marker, returns "not found" when current is its
\* own parent, and else moves to the strict parent; a call makes at most
\* depth+1 marker checks, and returns "not found" when neither the path nor
\* an ancestor holds a marker.
C15_FindGitRootTerminates ==
    /\ [][(walk.pc = "loop" /\ walk' # walk) =>
            /\ walk'.checks = walk.checks + 1
            /\ \/ /\ walk'.pc = "done"
                  /\ walk'.result = walk.current
                  /\ walk.current \in gitDirs
               \/ /\ walk'.pc = "done"
                  /\ walk'.result = <<>>
                  /\ walk.current \notin gitDirs
                  /\ Dir(walk.current) = walk.current
               \/ /\ walk'.pc = "loop"
                  /\ walk.current \notin gitDirs
                  /\ walk'.current = Dir(walk.current)
                  /\ Depth(walk'.current) = Depth(walk.current) - 1]_vars
    /\ [](walk.pc # "idle" => walk.checks <= Depth(walk.start) + 1)
    /\ []((walk.pc = "done" /\ SelfAndAncestors(walk.start) \cap gitDirs = {})
            => walk.result = <<>>)
    /\ (walk.pc = "loop") ~> (walk.pc = "done")

\* C15's case: a walk from a path three directories deep, with no marker on
\* it or above it, has ended with "not found" after four checks.
C15_Witness ==
    /\ walk.pc = "done"
    /\ Depth(walk.start) = 3
    /\ SelfAndAncestors(walk.start) \cap gitDirs = {}
    /\ walk.result = <<>>
    /\ walk.checks = 4

(***************************************************************************)
(* Properties of CleanupInvalidPaths (under SpecCleanup)                   *)
(***************************************************************************)
Cleaned == last.op = "CleanupInvalidPaths"

\* C17: a call of CleanupInvalidPaths that directly follows another one (the
\* filesystem as the first call saw it) removes nothing, returns 0 and leaves
\* Workspaces and Bindings as the first call left them.
C17_CleanupIdempotent ==
    (Cleaned /\ last.prev # <<>>)
    => /\ last.removed = 0
       /\ cfg.Workspaces = last.before.Workspaces
       /\ cfg.Bindings = last.before.Bindings

\* C17's case: the call before removed entries and kept others; this call
\* removed nothing.
C17_Witness ==
    /\ Cleaned
    /\ last.prev # <<>>
    /\ last.prev[1] > 0
    /\ Len(cfg.Workspaces) + Len(cfg.Bindings) > 0
    /\ last.removed = 0
    /\ cfg = last.before

\* The entries of list `before` whose path is in `ex`, by index.
Existing(before, ex) == {i \in DOMAIN before : before[i].Path \in ex}

\* List `after` holds the entries of `before` with an index in S, and no
\* others, in the order of `before`.
KeptInOrder(before, after, S) ==
    /\ Len(after) = Cardinality(S)
    /\ \A i \in S : after[Cardinality({j \in S : j <= i})] = before[i]

\* C18: CleanupInvalidPaths removes the workspaces and bindings whose path
\* does not exist and no others, keeps the rest in their order, returns the
\* number of entries removed, and leaves Users and ActiveUser as they were.
C18_CleanupFrame ==
    Cleaned =>
        LET W == Existing(last.before.Workspaces, exists)
            B == Existing(last.before.Bindings, exists)
        IN  /\ KeptInOrder(last.before.Workspaces, cfg.Workspaces, W)
            /\ KeptInOrder(last.before.Bindings, cfg.Bindings, B)
            /\ last.removed = (Len(last.before.Workspaces) - Cardinality(W))
                              + (Len(last.before.Bindings) - Cardinality(B))
            /\ cfg.Users = last.before.Users
            /\ cfg.ActiveUser = last.before.ActiveUser

\* C18's case: with an active user set, a workspace and a binding went and a
\* workspace and a binding stayed.
C18_Witness ==
    /\ Cleaned
    /\ cfg.ActiveUser # ""
    /\ Len(last.before.Workspaces) = 2
    /\ Len(cfg.Workspaces) = 1
    /\ Len(last.before.Bindings) = 2
    /\ Len(cfg.Bindings) = 1
    /\ last.removed = 2

(***************************************************************************)
(* Properties of persistence (under SpecPersist)                           *)
(***************************************************************************)
\* C19: a populated Config saved with SaveConfig and read back with LoadConfig
\* comes back with the same ActiveUser, Users, Workspaces and Bindings.
C19_SaveLoadRoundTrip ==
    (last.op = "LoadConfig" /\ last.saved # <<>> /\ last.saved[1].Users # <<>>)
    => /\ cfg.ActiveUser = last.saved[1].ActiveUser
       /\ cfg.Users = last.saved[1].Users
       /\ cfg.Workspaces = last.saved[1].Workspaces
       /\ cfg.Bindings = last.saved[1].Bindings

(***************************************************************************)
(* Properties of overlapping invocations (under SpecConcurrent)            *)
(***************************************************************************)
\* Invocation p has saved and reported success.
Succeeded(p) == procs[p].pc = "done" /\ procs[p].err = ""

\* The persisted document holds user u.
Persisted(u) == \E i \in DOMAIN file.users : file.users[i] = EncodeUser(u)

\* Both invocations have succeeded, each having loaded the document before
\* the other saved.
Overlapped ==
    /\ Succeeded("p1")
    /\ Succeeded("p2")
    /\ \A i \in DOMAIN procs["p1"].cfg.Users : procs["p1"].cfg.Users[i] # procs["p2"].user
    /\ \A i \in DOMAIN procs["p2"].cfg.Users : procs["p2"].cfg.Users[i] # procs["p1"].user

\* C20: when two `bgit add` invocations have both reported success, the
\* persisted document is the copy of one of them (the last to save), and when
\* they overlapped it lacks the user the other one added: load and save do
\* nothing to prevent the lost update.
C20_LastWriterWins ==
    /\ (Succeeded("p1") /\ Succeeded("p2"))
          => \E p \in Procs : file = SaveConfig(procs[p].cfg)
    /\ Overlapped
          => \E p, q \in Procs :
                /\ p # q
                /\ Persisted(procs[p].user)
                /\ ~Persisted(procs[q].user)

\* C20's case: both invocations added a user of their own and reported
\* success, and the document holds only one of the two users.
C20_Witness ==
    /\ Succeeded("p1")
    /\ Succeeded("p2")
    /\ procs["p1"].user # procs["p2"].user
    /\ Persisted(procs["p2"].user)
    /\ ~Persisted(procs["p1"].user)

(***************************************************************************)
(* The SSH config file: the commands that rewrite its managed section, the *)
(* user's own edits, and uninstall (SpecSSH)                               *)
(***************************************************************************)
\* ssh.UpdateSSHConfig(cfg.Users), as `use`, `update` and `delete` call it
CallUpdateSSHConfig ==
    /\ sshConfig' = UpdateSSHConfig(sshConfig, cfg.Users)
    /\ last' = [op |-> "UpdateSSHConfig", before |-> sshConfig]
    /\ UNCHANGED <<cfg, file, exists, gitDirs, walk, procs, gitUser>>

\* The user saves ~/.ssh/config from an editor.
EditSSHConfig(content) ==
    /\ sshConfig' = content
    /\ last' = [op |-> "edit"]
    /\ UNCHANGED <<cfg, file, exists, gitDirs, walk, procs, gitUser>>

\* bgit uninstall --force --skip-repos: the SSH config entries are removed,
\* then the config directory; the document is the empty one the next
\* command's autoInit creates. managed: the file was, before, as
\* UpdateSSHConfig writes it for the configured users.
runUninstall ==
    /\ sshConfig' = removeSSHConfigEntries(sshConfig)
    /\ cfg' = NewConfig
    /\ file' = SaveConfig(NewConfig)
    /\ last' = [op |-> "uninstall", before |-> sshConfig,
                managed |-> sshConfig = UpdateSSHConfig(sshConfig, Decode(file).Users)]
    /\ UNCHANGED <<exists, gitDirs, walk, procs, gitUser>>

\* Lines of the user's own, and the contents an editor may leave: plain
\* entries, entries followed by blank lines, a begin marker that is never
\* closed, an end marker that was never opened, a section of the older
\* markers, the managed section followed by entries, an indented marker.
HostX == <<"Host ", "x">>
HostY == <<"Host ", "y">>

SSHContents ==
    { <<HostX>>,
      <<HostX, EmptyLine, EmptyLine>>,
      <<HostX, bgitManagedStart, HostY>>,
      <<bgitManagedEnd, HostX>>,
      <<legacyManagedStart, HostY, legacyManagedEnd, HostX>>,
      generateBgitSection(<<>>) \o <<HostX>>,
      <<HostX, <<"  ">> \o bgitManagedStart, HostY, bgitManagedEnd>> }

SSHUsers == {User("a", "ea", "ga", "ka"), User("b", "eb", "gb", "")}

SSHNext ==
    \/ \E u \in SSHUsers : runAdd(u)
    \/ \E id \in CmdIdentifiers : runUse(id, 2, TRUE, TRUE)
    \/ CallUpdateSSHConfig
    \/ \E content \in SSHContents : EditSSHConfig(content)
    \/ runUninstall

SpecSSH == Init /\ [][SSHNext]_vars

IsBeginMarker(line) == TrimSpace(line) \in {bgitManagedStart, legacyManagedStart}
IsEndMarker(line) == TrimSpace(line) \in {bgitManagedEnd, legacyManagedEnd}

\* The lines of a file that are not between a begin marker and its end marker
\* (the next end marker after it); a begin marker that no end marker follows
\* opens nothing.
RECURSIVE Outside(_)
Outside(lines) ==
    IF lines = <<>> THEN <<>>
    ELSE LET ends == {j \in 2..Len(lines) : IsEndMarker(lines[j])}
         IN  IF IsBeginMarker(Head(lines)) /\ ends # {}
             THEN Outside(SubSeq(lines, First(ends) + 1, Len(lines)))
             ELSE <<Head(lines)>> \o Outside(Tail(lines))

\* s is t with some of its lines left out.
RECURSIVE IsSubseq(_, _)
IsSubseq(s, t) ==
    IF s = <<>> THEN TRUE
    ELSE IF t = <<>> THEN FALSE
    ELSE IF Head(s) = Head(t) THEN IsSubseq(Tail(s), Tail(t))
    ELSE IsSubseq(s, Tail(t))

\* C21: UpdateSSHConfig changes the managed section only: the lines that were
\* outside it before the call (those after a begin marker that is never
\* closed included) are all outside it afterwards, unmodified and in the same
\* order.
C21_OutsidePreserved ==
    last.op = "UpdateSSHConfig" => IsSubseq(Outside(last.before), Outside(sshConfig))

IsManagedLine(line) ==
    \/ IsBeginMarker(line)
    \/ IsEndMarker(line)
    \/ Len(line) >= 2 /\ line[1] = "Host " /\ line[2] = "github.com-"

\* C22: after bgit uninstall, run on an SSH config whose managed section
\* UpdateSSHConfig wrote, the file holds no begin or end marker and no host
\* block of bgit.
C22_UninstallRemovesSection ==
    (last.op = "uninstall" /\ last.managed) =>
        \A i \in DOMAIN sshConfig : ~IsManagedLine(sshConfig[i])

(***************************************************************************)
(* bind and its --force flag (SpecBind)                                    *)
(***************************************************************************)
\* Two users, each with the other's alias as GitHub username.
BindUsers == {User("x", "e1", "y", ""), User("y", "e2", "x", "")}
BindIdentifiers == {"x", "y"}

BindNext ==
    \/ \E u \in BindUsers : runAdd(u)
    \/ \E id \in BindIdentifiers : runUse(id, 2, TRUE, TRUE)
    \/ \E d \in CmdDirs, u \in BindIdentifiers \cup {""}, f \in BOOLEAN : runBind(d, u, f)
    \/ \E d \in CmdDirs : runBindRemove(d)
    \/ \E d \in {PathA} : GitInit(d)

SpecBind == Init /\ [][BindNext]_vars

\* The repository root `bgit bind` finds from directory d, the alias it binds
\* for --user u in the Config c it loaded, and the binding c holds for that
\* root.
BindRoot(d) == findGitRoot(d, gitDirs)
BindAlias(c, u) == IF u = "" THEN c.ActiveUser ELSE u
BoundAt(c, d) == IF BindRoot(d) = <<>> THEN 0 ELSE FindBindingByPath(c, BindRoot(d))

\* C23: bind without --force, run in a repository that has a binding and for
\* a user that exists: for a different user it fails and leaves the bindings and
\* the persisted config as they were, for the same user it changes nothing;
\* with --force the binding of that repository is the new user's.
C23_BindNeedsForce ==
    [][\A d \in CmdDirs, u \in BindIdentifiers \cup {""}, f \in BOOLEAN :
        LET c == LoadConfig(file).cfg
        IN  (/\ runBind(d, u, f)
             /\ BoundAt(c, d) # 0
             /\ FindUserByAlias(c, BindAlias(c, u)) # 0)
            => LET old == c.Bindings[BoundAt(c, d)]
                   err == runBindErr(c, BindRoot(d), BindAlias(c, u), f)
               IN  /\ ~f => /\ file' = file
                            /\ cfg'.Bindings = c.Bindings
                            /\ (old.User # BindAlias(c, u)) <=> (err = "repository already bound")
                   /\ f  => /\ err = ""
                            /\ BoundAt(cfg', d) # 0
                            /\ cfg'.Bindings[BoundAt(cfg', d)].User = BindAlias(c, u)
                            /\ Decode(file').Bindings = cfg'.Bindings]_vars

(***************************************************************************)
(* User lookup and the active user (SpecPersist, SpecActive)               *)
(***************************************************************************)
\* C24: the alias is the primary key of FindUser: when some user has the
\* identifier as alias, FindUser returns that user, whatever GitHub username
\* or e-mail the users before it have.
C24_AliasIsPrimary ==
    (last.op = "FindUser" /\ FindUserByAlias(cfg, last.identifier) # 0)
        => /\ last.found # 0
           /\ cfg.Users[last.found].Alias = last.identifier

\* Every command that touches users or the active user, with every way `use`
\* can fail, on two users that each have the other's alias as GitHub username.
UseOutcomes ==
    {<<2, TRUE, TRUE>>, <<2, TRUE, FALSE>>, <<2, FALSE, TRUE>>,
     <<1, TRUE, TRUE>>, <<0, TRUE, TRUE>>}

ActiveNext ==
    \/ \E u \in BindUsers : runAdd(u)
    \/ \E id \in BindIdentifiers, ok \in UseOutcomes : runUse(id, ok[1], ok[2], ok[3])
    \/ \E id \in BindIdentifiers : runDelete(id, TRUE)
    \/ \E id \in BindIdentifiers : runUpdate(id, "k")
    \/ \E aliases \in {<<>>, <<"x">>} : runWorkspace(PathA, aliases)
    \/ \E u \in BindIdentifiers \cup {""} : runBind(PathAR, u, FALSE)

SpecActive == Init /\ [][ActiveNext]_vars

\* ActiveUser of Config c is empty or the alias of exactly one user.
ActiveUserValid(c) ==
    \/ c.ActiveUser = ""
    \/ Cardinality({i \in DOMAIN c.Users : c.Users[i].Alias = c.ActiveUser}) = 1

\* C25: after any sequence of add, use, delete, update, workspace and bind
\* commands from the empty config, ActiveUser (of the Config the command held
\* and of the persisted one) is empty or the alias of exactly one user.
C25_ActiveUserValid == ActiveUserValid(cfg) /\ ActiveUserValid(Decode(file))

\* The active user was deleted while another user remains: `use` had written
\* git's user.name, and ActiveUser is empty again.
C25_Witness ==
    /\ last = Command
    /\ gitUser.name # ""
    /\ cfg.ActiveUser = ""
    /\ Len(cfg.Users) = 1
    /\ cfg.Users[1].Alias # gitUser.name

\* C26: LoadConfig does not change which user the global identity refers to:
\* when the persisted ActiveUser is the alias of a user, the loaded ActiveUser
\* is that alias, also when another user's GitHub username equals it.
C26_LoadKeepsActiveUser ==
    LET doc == Decode(last.before)
    IN  (last.op = "LoadConfig" /\ FindUserByAlias(doc, doc.ActiveUser) # 0)
            => cfg.ActiveUser = doc.ActiveUser

(***************************************************************************)
(* Resolution when aliases are deleted and taken again (SpecDangling)      *)
(***************************************************************************)
\* Alias a belongs to one identity, or, once that one is deleted, to another.
DanglingUsers ==
    {User("a", "ea", "ga", ""), User("a", "e2", "g2", ""), User("b", "eb", "gb", "")}

DanglingNext ==
    \/ \E u \in DanglingUsers : runAdd(u)
    \/ \E id \in CmdIdentifiers : runDelete(id, TRUE)
    \/ \E id \in CmdIdentifiers : runUse(id, 2, TRUE, TRUE)
    \/ \E base \in CmdBasePaths, a \in CmdIdentifiers : runWorkspace(base, <<a>>)
    \/ \E u \in CmdIdentifiers : runBind(PathAR, u, FALSE)
    \/ \E p \in {PathAB, PathAR} : CallResolveIdentity(p)

SpecDangling == Init /\ [][DanglingNext]_vars

\* C27: a Resolution that ResolveIdentity returns holds a user of
\* config.Users whose alias is the Resolution's alias; its source is
\* workspace, binding or global; its path is the path of a workspace that
\* contains the queried path, the path of a binding at the repository root,
\* or empty for global.
C27_ResolutionWellFormed ==
    (Resolved /\ last.res # NoResolution)
    => LET r == last.res
       IN  /\ r.User \in DOMAIN cfg.Users
           /\ cfg.Users[r.User].Alias = r.Alias
           /\ r.Source \in {SourceWorkspace, SourceBinding, SourceGlobal}
           /\ r.Source = SourceWorkspace =>
                 \E w \in Containing(last.path) :
                     cfg.Workspaces[w] = Workspace(r.Path, r.Alias)
           /\ r.Source = SourceBinding =>
                 \E b \in RootBindings(last.path) :
                     cfg.Bindings[b] = Binding(r.Path, r.Alias)
           /\ r.Source = SourceGlobal => r.Path = <<>> /\ r.Alias = cfg.ActiveUser

\* A resolution by binding whose user is the second of the list, for a path
\* that no workspace decides.
C27_Witness ==
    /\ Resolved
    /\ last.path = PathAR
    /\ last.res.Source = SourceBinding
    /\ last.res.Path = PathAR
    /\ last.res.User = 2
    /\ last.res.Alias = "b"

\* The first workspace of Config c that contains path p (0: none).
FirstContainingIn(c, p) ==
    First({i \in DOMAIN c.Workspaces : isPathInside(p, c.Workspaces[i].Path)})

\* C28: a workspace whose user was deleted stays in the config and takes
\* effect again when its alias is taken by a new user: `delete` leaves
\* Workspaces and Bindings as they are, and once `add` has added a user under
\* the alias of the first workspace that contains a path, ResolveIdentity on
\* that path returns the added user with source workspace and that
\* workspace's path.
C28_DanglingBecomesEffective ==
    /\ [][\A id \in CmdIdentifiers :
            runDelete(id, TRUE) => /\ cfg'.Workspaces = Decode(file).Workspaces
                                   /\ cfg'.Bindings = Decode(file).Bindings]_vars
    /\ [][\A u \in DanglingUsers, p \in {PathAB, PathAR} :
            LET c == Decode(file)
                w == FirstContainingIn(c, p)
            IN  (/\ runAdd(u)
                 /\ w # 0
                 /\ c.Workspaces[w].User = u.Alias
                 /\ FindUserByAlias(c, u.Alias) = 0)
                => LET r == ResolveIdentity(cfg', p, gitDirs)
                   IN  /\ r.Source = SourceWorkspace
                       /\ r.Path = c.Workspaces[w].Path
                       /\ r.Alias = u.Alias
                       /\ r.User \in DOMAIN cfg'.Users
                       /\ cfg'.Users[r.User] = u]_vars

\* Alias a was used by its first identity (git's user.email is still "ea"),
\* which is gone; the workspace /a of alias a now resolves to the identity
\* that took the alias.
C28_Witness ==
    /\ Resolved
    /\ last.path = PathAB
    /\ last.res.Source = SourceWorkspace
    /\ last.res.Path = PathA
    /\ last.res.Alias = "a"
    /\ cfg.Users[last.res.User].Email = "e2"
    /\ gitUser.email = "ea"

\* The path lies in several workspaces, the first of them in list order has
\* the alias of no user and a later one that of a user.
LaterWorkspaceResolves(p) ==
    /\ Containing(p) # {}
    /\ ~AliasExists(cfg.Workspaces[FirstContaining(p)].User)
    /\ \E j \in Containing(p) : AliasExists(cfg.Workspaces[j].User)

\* C29: only the first workspace that contains the path is consulted: when
\* its alias dangles, the resolution is never by workspace, even if a later
\* containing workspace has a user; it is the binding's when a binding at the
\* repository root has a user, else the global active user's, else absent.
C29_OnlyFirstWorkspace ==
    (Resolved /\ LaterWorkspaceResolves(last.path))
    => LET r == last.res
       IN  /\ r.Source # SourceWorkspace
           /\ ~NoBindingUser(last.path) => r.Source = SourceBinding
           /\ (NoBindingUser(last.path) /\ AliasExists(cfg.ActiveUser))
                 => (r.Source = SourceGlobal /\ r.Alias = cfg.ActiveUser)
           /\ (NoBindingUser(last.path) /\ ~AliasExists(cfg.ActiveUser))
                 => r = NoResolution

\* /a/b lies in workspace /a, whose user is gone, and in the later workspace
\* /a/b, whose user exists; the global active user is returned.
C29_Witness ==
    /\ Resolved
    /\ last.path = PathAB
    /\ LaterWorkspaceResolves(PathAB)
    /\ cfg.Workspaces[FirstContaining(PathAB)].Path = PathA
    /\ last.res.Source = SourceGlobal

====
